---------------------------- MODULE Spec2Model ----------------------------
(***************************************************************************)
(* Model of the relayer fan-out core (relayer/src/relayer.rs): the         *)
(* subscriber registry, the forwarding set, the event loop of              *)
(* RelayerImpl::run_event_loop with its four select arms, and the two RPC  *)
(* methods of the Relayer service.  Every select arm is one action that    *)
(* runs the whole arm body followed by the tail of the loop iteration (the *)
(* forwarding-set recomputation and the exit test of the while loop).      *)
(***************************************************************************)
EXTENDS Integers, Sequences, FiniteSets, TLC

(***************************************************************************)
(* Bounds of the model.                                                    *)
(***************************************************************************)
\* number of subscriber channels (sink ids)
MaxSinks == 3
\* number of channels created by subscribe_packets calls
MaxSubscribes == 2
\* number of packet batches handed to the event loop
MaxBatches == 2
\* number of heartbeat ticks
MaxHeartbeatTicks == 3
\* the highest slot the external slot observer stores
MaxSlot == 1
\* number of get_tpu_configs calls
MaxCalls == 4
\* largest configured validator_packet_batch_size
MaxBatchSize == 2
\* capacity of a subscriber sink; scaled down from
\* RelayerImpl::SUBSCRIBER_QUEUE_CAPACITY = 50_000 (relayer.rs:376)
SubscriberQueueCapacity == 2
\* capacity of the subscription channel; scaled down from
\* LoadBalancer::SLOT_QUEUE_CAPACITY (relayer.rs:397)
SlotQueueCapacity == 1
\* capacity of the tpu and of the tpu_forwards channel (Tpu::TPU_QUEUE_CAPACITY
\* = 10_000 in core/src/tpu.rs:49, scaled down)
TpuQueueCapacity == 2

(***************************************************************************)
(* Program constants.                                                      *)
(***************************************************************************)
LEADER_LOOKAHEAD == 2
NUM_CONSECUTIVE_LEADER_SLOTS == 4
PORT_OFFSET == 6
U16 == 65536

(***************************************************************************)
(* Values.                                                                 *)
(***************************************************************************)
Pubkeys == {"X", "Y", "Z"}
\* a request that carries no authenticated identity
NoKey == "none"
\* registry value of an identity that has no entry
NoSink == 0
SinkIds == 1..MaxSinks

\* The leader schedule served by the schedule cache: slot -> leader, each
\* leader holding NUM_CONSECUTIVE_LEADER_SLOTS consecutive slots; slots past
\* the end of the schedule have no entry.
schedule(s) ==
    IF s \in 0..3 THEN "X"
    ELSE IF s \in 4..7 THEN "Y"
    ELSE IF s \in 8..11 THEN "Z"
    ELSE NoKey

\* The configured port vectors (bind ports) of the two QUIC pools.
tpu_quic_ports == <<11228, 11230, 4>>
tpu_fwd_quic_ports == <<11229, 11231>>

\* Packets of an incoming batch, by what the projection does with them:
\*   ok       decodes, touches no denylisted account
\*   discard  the discard flag is set (failed signature verification)
\*   ofac     decodes and touches a denylisted account
\*   bad      does not deserialize as a versioned transaction
PacketKinds == {"ok", "discard", "ofac", "bad"}
InputBatches ==
    { <<"discard">>, <<"ok">>, <<"ok", "discard", "ok", "ok">>, <<"ofac", "bad", "ok">> }

VARIABLES
    health_state,           \* "Healthy" | "Unhealthy"   (Arc<RwLock<HealthState>>)
    highest_slot,           \* Arc<AtomicU64> written by the slot observer
    exit,                   \* Arc<AtomicBool>
    forward_all,            \* configuration
    validator_packet_batch_size, \* configuration
    ofac_addresses,         \* configuration: the denylist, as a set
    packet_subscriptions,   \* registry: pubkey -> sink id, NoSink when absent
    senders,                \* forwarding set: sequence of <<pubkey, sink id>>
    last_observed_slot,     \* local of run_event_loop
    relayer_metrics,        \* local of run_event_loop
    subscription_queue,     \* bounded channel RPC -> event loop
    sinks,                  \* the tokio channels behind the sink ids
    nsinks,                 \* number of channels created so far
    seq,                    \* RelayerImpl.seq
    rpc,                    \* the response of the RPC call made by this step
    pc,                     \* event loop thread: "select" | "done" | "joined"
    pass,                   \* the last pass of try_sends: its batch, its calls and
                            \* the locks held while they were made
    ingest,                 \* items in the tpu and tpu_forwards channels of Tpu
    budget                  \* events used so far (bounds the model)

vars == << health_state, highest_slot, exit, forward_all,
           validator_packet_batch_size, ofac_addresses, packet_subscriptions,
           senders, last_observed_slot, relayer_metrics, subscription_queue,
           sinks, nsinks, seq, rpc, pc, pass, ingest, budget >>

config == << forward_all, validator_packet_batch_size, ofac_addresses >>


(***************************************************************************)
(* Small helpers.                                                          *)
(***************************************************************************)
Range(f) == { f[i] : i \in DOMAIN f }

\* The enumerations of a finite set: the orders in which a HashMap may be
\* iterated.
Orders(S) ==
    { f \in [1..Cardinality(S) -> S] : \A i, j \in DOMAIN f : f[i] = f[j] => i = j }

RECURSIVE SumOver(_, _)
SumOver(f, S) ==
    IF S = {} THEN 0
    ELSE LET x == CHOOSE y \in S : TRUE IN f[x] + SumOver(f, S \ {x})

(***************************************************************************)
(* tokio::sync::mpsc channel of one subscriber.  qlen counts the messages  *)
(* enqueued and not yet received by the client; rx is FALSE once the       *)
(* receiving half has been dropped; last_heartbeat is the count of the     *)
(* last Heartbeat enqueued (-1: none yet), which is what the client sees   *)
(* of the heartbeat counter; last_packet is the last packet of the last    *)
(* Batch enqueued, as << number of its incoming batch, position in it >>   *)
(* (<< 0, 0 >>: none yet).  The messages themselves do not influence the *)
(* relayer: the sends of a pass are kept in the pass state (tries).        *)
(***************************************************************************)
NewChannel == [qlen |-> 0, rx |-> TRUE, last_heartbeat |-> -1, last_packet |-> << 0, 0 >>]

\* A try_send that never reports Full: the variant the capacity property
\* is checked against.
TrySendNeverFull(ch) == IF ~ch.rx THEN "Closed" ELSE "Ok"

\* TokioSender::try_send: Closed is reported before Full.
TrySendOutcome(ch) ==
    IF ~ch.rx THEN "Closed"
    ELSE IF ch.qlen >= SubscriberQueueCapacity THEN "Full"
    ELSE "Ok"

Enqueue(ch, msg) ==
    [ch EXCEPT !.qlen = @ + 1,
               !.last_heartbeat = IF msg.type = "Heartbeat" THEN msg.count ELSE @,
               !.last_packet =
                   IF msg.type = "Batch"
                     THEN << msg.packets[Len(msg.packets)].batch,
                             msg.packets[Len(msg.packets)].id >>
                     ELSE @]

HeartbeatMsg(count) == [type |-> "Heartbeat", count |-> count, packets |-> <<>>]
BatchMsg(packets) == [type |-> "Batch", count |-> 0, packets |-> packets]

(***************************************************************************)
(* RelayerMetrics (the fields the event loop's behaviour is observed by).  *)
(***************************************************************************)
PacketForwardStatsDefault == [num_packets_forwarded |-> 0, num_packets_dropped |-> 0]

RelayerMetricsNew ==
    [ num_heartbeats |-> 0,
      num_try_send_channel_full |-> 0,
      packet_stats_per_validator |-> [pk \in Pubkeys |-> PacketForwardStatsDefault] ]

increment_packets_forwarded(m, pk, n) ==
    [m EXCEPT !.packet_stats_per_validator[pk].num_packets_forwarded = @ + n]

increment_packets_dropped(m, pk, n) ==
    [m EXCEPT !.packet_stats_per_validator[pk].num_packets_dropped = @ + n]

(***************************************************************************)
(* Sender handles.  A sink's client observes end-of-stream once no sender  *)
(* handle of the channel is left: none in the registry, none in the        *)
(* forwarding set, none in a queued Subscription.                          *)
(***************************************************************************)
HandleInRegistry(s) == \E pk \in Pubkeys : packet_subscriptions[pk] = s
HandleInSenders(s) == \E i \in DOMAIN senders : senders[i][2] = s
HandleInQueue(s) == \E i \in DOMAIN subscription_queue : subscription_queue[i].sender = s
HasSenderHandle(s) == HandleInRegistry(s) \/ HandleInSenders(s) \/ HandleInQueue(s)

Connected == { pk \in Pubkeys : packet_subscriptions[pk] # NoSink }

(***************************************************************************)
(* forward_packets: the projection of the incoming batch.                  *)
(***************************************************************************)
\* Packet::deserialize_slice(..).ok(): does the packet decode as a
\* VersionedTransaction
Deserializes(p) == p.kind # "bad"

\* is_tx_ofac_related, for a packet that decodes
is_tx_ofac_related(p) == ofac_addresses # {} /\ p.kind = "ofac"

\* A filter that lets packets with the discard flag through: the variant
\* the projection property is checked against.
KeepsDiscarded(p) == TRUE

\* the filter on the discard flag
NotDiscarded(p) == p.kind # "discard"

\* A denylist filter that lets a packet through when it does not
\* deserialize: the variant the undecodable-packet property is checked
\* against.
PassesOfacUndecoded(p) ==
    IF ofac_addresses = {} THEN TRUE
    ELSE IF ~Deserializes(p) THEN TRUE
    ELSE ~is_tx_ofac_related(p)

\* the filter_map on the denylist
PassesOfac(p) ==
    IF ofac_addresses = {} THEN TRUE
    ELSE IF ~Deserializes(p) THEN FALSE
    ELSE ~is_tx_ofac_related(p)

\* the surviving packets, in the order of the incoming batch
Projection(batch) ==
    SelectSeq(SelectSeq(batch, NotDiscarded), PassesOfac)

\* Chunks of exactly size packets, the remainder left out (chunks_exact):
\* the variant the chunking property is checked against.
RECURSIVE ChunksExact(_, _)
ChunksExact(packets, size) ==
    IF Len(packets) < size THEN <<>>
    ELSE << SubSeq(packets, 1, size) >> \o ChunksExact(SubSeq(packets, size + 1, Len(packets)), size)

\* Chunks taken from the end of the slice first: the variant the ordering
\* property is checked against.
RECURSIVE ChunksLastFirst(_, _)
ChunksLastFirst(packets, size) ==
    IF Len(packets) = 0 THEN <<>>
    ELSE IF Len(packets) <= size THEN << packets >>
    ELSE ChunksLastFirst(SubSeq(packets, size + 1, Len(packets)), size)
             \o << SubSeq(packets, 1, size) >>

\* slice::chunks(size): consecutive chunks of size packets, the last one
\* holding the remainder
RECURSIVE Chunks(_, _)
Chunks(packets, size) ==
    IF Len(packets) = 0 THEN <<>>
    ELSE IF Len(packets) <= size THEN << packets >>
    ELSE << SubSeq(packets, 1, size) >> \o Chunks(SubSeq(packets, size + 1, Len(packets)), size)

(***************************************************************************)
(* forward_packets: the fan-out of the sub-batches.  The state of a pass   *)
(* is the channels, the metrics, the failed_forwards list and, for the     *)
(* properties, the try_send calls made so far with their outcomes.         *)
(***************************************************************************)
Try(pk, s, chunk, outcome) ==
    [pubkey |-> pk, sink |-> s, msg |-> BatchMsg(chunk), outcome |-> outcome]

OnSendOk(st, pk, s, chunk) ==
    [st EXCEPT !.sinks[s] = Enqueue(@, BatchMsg(chunk)),
               !.metrics = increment_packets_forwarded(@, pk, Len(chunk)),
               !.tries = Append(@, Try(pk, s, chunk, "Ok"))]

\* A Full arm that also marks the identity for drop, as the Closed arm
\* does: the variant the Full-outcome property is checked against.
OnSendFullMarksDrop(st, pk, s, chunk) ==
    [st EXCEPT !.metrics = increment_packets_dropped(@, pk, Len(chunk)),
               !.failed = Append(@, pk),
               !.tries = Append(@, Try(pk, s, chunk, "Full"))]

OnSendFull(st, pk, s, chunk) ==
    [st EXCEPT !.metrics = increment_packets_dropped(@, pk, Len(chunk)),
               !.tries = Append(@, Try(pk, s, chunk, "Full"))]

OnSendClosed(st, pk, s, chunk) ==
    [st EXCEPT !.failed = Append(@, pk),
               !.tries = Append(@, Try(pk, s, chunk, "Closed"))]

\* A subscriber loop that goes on to the next entry after a Closed outcome
\* instead of breaking: the variant the Closed-outcome property is checked
\* against.
RECURSIVE SendToSendersPastClosed(_, _, _, _)
SendToSendersPastClosed(st, snd, chunk, i) ==
    IF i > Len(snd) THEN st
    ELSE LET pk == snd[i][1]
             s == snd[i][2]
             outcome == TrySendOutcome(st.sinks[s])
         IN  IF outcome = "Ok"
               THEN SendToSendersPastClosed(OnSendOk(st, pk, s, chunk), snd, chunk, i + 1)
             ELSE IF outcome = "Full"
               THEN SendToSendersPastClosed(OnSendFull(st, pk, s, chunk), snd, chunk, i + 1)
             ELSE SendToSendersPastClosed(OnSendClosed(st, pk, s, chunk), snd, chunk, i + 1)

\* the subscriber loop of one sub-batch, from entry i of the forwarding set
RECURSIVE SendToSenders(_, _, _, _)
SendToSenders(st, snd, chunk, i) ==
    IF i > Len(snd) THEN st
    ELSE LET pk == snd[i][1]
             s == snd[i][2]
             outcome == TrySendOutcome(st.sinks[s])
         IN  IF outcome = "Ok"
               THEN SendToSenders(OnSendOk(st, pk, s, chunk), snd, chunk, i + 1)
             ELSE IF outcome = "Full"
               THEN SendToSenders(OnSendFull(st, pk, s, chunk), snd, chunk, i + 1)
             ELSE OnSendClosed(st, pk, s, chunk)    \* break

\* the loop over the sub-batches, from sub-batch k
RECURSIVE SendChunks(_, _, _, _)
SendChunks(st, snd, chunks, k) ==
    IF k > Len(chunks) THEN st
    ELSE IF Len(chunks[k]) = 0 THEN SendChunks(st, snd, chunks, k + 1)
    ELSE SendChunks(SendToSenders(st, snd, chunks[k], 1), snd, chunks, k + 1)

\* forward_packets(Ok(batch), senders, ...): the pass state at its return
forward_packets(batch, snd, chans, metrics, size) ==
    LET packets == Projection(batch)
        st0 == [sinks |-> chans, metrics |-> metrics, failed |-> <<>>, tries |-> <<>>]
    IN  IF Len(packets) = 0 THEN st0
        ELSE SendChunks(st0, snd, Chunks(packets, size), 1)

(***************************************************************************)
(* drop_connections: remove the given identities from the registry.        *)
(***************************************************************************)
\* A drop that empties the registry whatever identities it is given: the
\* variant the registry-size property is checked against.
drop_every_connection(disconnected_pubkeys, subscriptions) ==
    [pk \in Pubkeys |-> NoSink]

\* A drop that leaves the registry as it is: the variant the eviction
\* property is checked against.
drop_no_connection(disconnected_pubkeys, subscriptions) ==
    subscriptions

drop_connections(disconnected_pubkeys, subscriptions) ==
    [pk \in Pubkeys |->
        IF pk \in disconnected_pubkeys THEN NoSink ELSE subscriptions[pk]]

(***************************************************************************)
(* handle_heartbeat: try_send Heartbeat{num_heartbeats} to every entry of  *)
(* the registry.  Each identity has its own channel, so the outcome of one *)
(* try_send does not depend on the iteration order.                        *)
(***************************************************************************)
HeartbeatOutcome(pk) == TrySendOutcome(sinks[packet_subscriptions[pk]])

\* A heartbeat that marks the full sinks for drop as well as the closed
\* ones: the variant the heartbeat-tick property is checked against.
HeartbeatFailedOrFull == { pk \in Connected : HeartbeatOutcome(pk) \in {"Closed", "Full"} }

HeartbeatFailed == { pk \in Connected : HeartbeatOutcome(pk) = "Closed" }

HeartbeatFull == { pk \in Connected : HeartbeatOutcome(pk) = "Full" }

\* An Unhealthy tick that marks only the subscribers whose sink is closed:
\* the variant the Unhealthy-tick property is checked against.
UnhealthyKeysClosedOnly == { pk \in Connected : ~sinks[packet_subscriptions[pk]].rx }

\* packet_subscriptions.read().unwrap().keys(): the identities the
\* heartbeat arm marks for drop when the relayer is not Healthy
UnhealthyKeys == Connected

HeartbeatSinks(count) ==
    [s \in SinkIds |->
        IF \E pk \in Connected : packet_subscriptions[pk] = s /\ HeartbeatOutcome(pk) = "Ok"
          THEN Enqueue(sinks[s], HeartbeatMsg(count))
          ELSE sinks[s]]

HeartbeatMetrics(m) ==
    [m EXCEPT !.num_try_send_channel_full = @ + Cardinality(HeartbeatFull),
              !.num_heartbeats = @ + 1]

(***************************************************************************)
(* handle_subscription: insert or overwrite the registry entry.            *)
(***************************************************************************)
\* An insertion that consults the health state and lets the subscription
\* go when the relayer is not Healthy: the variant the late-subscription
\* property is checked against.
handle_subscription_if_healthy(subscription, subscriptions) ==
    IF health_state = "Healthy"
      THEN [subscriptions EXCEPT ![subscription.pubkey] = subscription.sender]
      ELSE subscriptions

handle_subscription(subscription, subscriptions) ==
    [subscriptions EXCEPT ![subscription.pubkey] = subscription.sender]

(***************************************************************************)
(* The forwarding set recomputed for new_slot from the registry reg.       *)
(***************************************************************************)
RECURSIVE LeaderSenders(_, _, _)
LeaderSenders(slot, last, reg) ==
    IF slot >= last THEN <<>>
    ELSE LET pk == schedule(slot)
             rest == LeaderSenders(slot + 1, last, reg)
         IN  IF pk \in Pubkeys /\ reg[pk] # NoSink
               THEN << <<pk, reg[pk]>> >> \o rest
               ELSE rest

SlotLeadersEnd(new_slot) == new_slot + LEADER_LOOKAHEAD * NUM_CONSECUTIVE_LEADER_SLOTS

\* forward_all: the registry in one of its iteration orders
AllSenders(reg) ==
    LET keys == { pk \in Pubkeys : reg[pk] # NoSink }
    IN  { [i \in 1..Cardinality(keys) |-> <<o[i], reg[o[i]]>>] : o \in Orders(keys) }

RecomputedSenders(new_slot, reg) ==
    IF forward_all THEN AllSenders(reg)
    ELSE { LeaderSenders(new_slot, SlotLeadersEnd(new_slot), reg) }

\* A loop that never tests the exit flag: the variant the termination
\* property is checked against.
LoopTailIgnoresExit(reg) ==
    /\ IF last_observed_slot # highest_slot
         THEN /\ last_observed_slot' = highest_slot
              /\ senders' \in RecomputedSenders(highest_slot, reg)
         ELSE UNCHANGED << last_observed_slot, senders >>
    /\ pc' = "select"

\* A loop that recomputes the forwarding set at the end of every
\* iteration: the variant the recomputation property is checked against.
LoopTailRecomputesAlways(reg) ==
    /\ last_observed_slot' = highest_slot
    /\ senders' \in RecomputedSenders(highest_slot, reg)
    /\ pc' = IF exit THEN "done" ELSE "select"

\* The end of one iteration of the while loop, with the registry reg the
\* arm left: recompute the forwarding set when the slot changed, then
\* test the exit flag.
LoopTail(reg) ==
    /\ IF last_observed_slot # highest_slot
         THEN /\ last_observed_slot' = highest_slot
              /\ senders' \in RecomputedSenders(highest_slot, reg)
         ELSE UNCHANGED << last_observed_slot, senders >>
    /\ pc' = IF exit THEN "done" ELSE "select"

(***************************************************************************)
(* Initial state: RelayerImpl::new has returned and the event loop thread  *)
(* has entered its loop.                                                   *)
(***************************************************************************)
NoRpc == [method |-> "none", identity |-> NoKey, status |-> "none", message |-> "",
          tpu |-> 0, tpu_forward |-> 0]

\* Tpu::new: both ingest channels are empty
NoIngest == [tpu |-> 0, tpu_forwards |-> 0]

NoPass == [batch |-> <<>>, senders |-> <<>>, tries |-> <<>>, failed |-> <<>>,
           held |-> {}]

InitState ==
    /\ highest_slot = 0
    /\ exit = FALSE
    /\ packet_subscriptions = [pk \in Pubkeys |-> NoSink]
    /\ senders = <<>>
    /\ last_observed_slot = highest_slot
    /\ relayer_metrics = RelayerMetricsNew
    /\ subscription_queue = <<>>
    /\ sinks = [s \in SinkIds |-> NewChannel]
    /\ nsinks = 0
    /\ seq = 0
    /\ rpc = NoRpc
    /\ pc = "select"
    /\ pass = NoPass
    /\ ingest = NoIngest
    /\ budget = [batches |-> 0, heartbeats |-> 0]

Init ==
    /\ health_state \in {"Healthy", "Unhealthy"}
    /\ forward_all \in BOOLEAN
    /\ validator_packet_batch_size \in 1..MaxBatchSize
    /\ ofac_addresses \in {{}, {"blocked"}}
    /\ InitState

(***************************************************************************)
(* The environment: the health manager, the slot observer, the owner of    *)
(* the exit flag and the clients.  A step that is no RPC call returns no   *)
(* RPC response.                                                           *)
(***************************************************************************)
SetHealth ==
    /\ health_state' = IF health_state = "Healthy" THEN "Unhealthy" ELSE "Healthy"
    /\ rpc' = NoRpc
    /\ UNCHANGED << ingest, highest_slot, exit, config, packet_subscriptions, senders,
                    last_observed_slot, relayer_metrics, subscription_queue,
                    sinks, nsinks, seq, pc, budget,
                    pass >>

AdvanceSlot ==
    /\ \E s \in (highest_slot + 1)..MaxSlot : highest_slot' = s
    /\ rpc' = NoRpc
    /\ UNCHANGED << ingest, health_state, exit, config, packet_subscriptions, senders,
                    last_observed_slot, relayer_metrics, subscription_queue,
                    sinks, nsinks, seq, pc, budget,
                    pass >>

SetExit ==
    /\ ~exit
    /\ exit' = TRUE
    /\ rpc' = NoRpc
    /\ UNCHANGED << ingest, health_state, highest_slot, config, packet_subscriptions,
                    senders, last_observed_slot, relayer_metrics,
                    subscription_queue, sinks, nsinks, seq, pc, budget,
                    pass >>

\* the client takes the next message off its stream
ClientRecv(s) ==
    /\ s <= nsinks
    /\ sinks[s].rx
    /\ sinks[s].qlen > 0
    /\ sinks' = [sinks EXCEPT ![s].qlen = @ - 1]
    /\ rpc' = NoRpc
    /\ UNCHANGED << ingest, health_state, highest_slot, exit, config, packet_subscriptions,
                    senders, last_observed_slot, relayer_metrics,
                    subscription_queue, nsinks, seq, pc, budget,
                    pass >>

\* the client goes away: the receiving half of its channel is dropped
ClientDisconnect(s) ==
    /\ s <= nsinks
    /\ sinks[s].rx
    /\ sinks' = [sinks EXCEPT ![s].rx = FALSE]
    /\ rpc' = NoRpc
    /\ UNCHANGED << ingest, health_state, highest_slot, exit, config, packet_subscriptions,
                    senders, last_observed_slot, relayer_metrics,
                    subscription_queue, nsinks, seq, pc, budget,
                    pass >>

(***************************************************************************)
(* The RPC methods.                                                        *)
(***************************************************************************)
check_health == IF health_state # "Healthy" THEN "relayer is unhealthy" ELSE "Ok"

Internal(method, message) ==
    [NoRpc EXCEPT !.method = method, !.status = "Internal", !.message = message]

\* A request always taken to carry an identity: the variant the
\* missing-identity property is checked against.
AlwaysHasIdentity(id) == TRUE

\* request.extensions().get(): the request carries an authenticated identity
HasIdentity(id) == id # NoKey

\* subscribe_packets of a request whose extensions hold identity id (NoKey:
\* none).  The crossbeam send fails once the event loop has dropped the
\* receiving half and waits while the subscription channel is full: the
\* call has then not returned ("Blocked") and goes on when there is room.
SubscribePackets(id) ==
    /\ IF check_health # "Ok"
         THEN /\ rpc' = [Internal("subscribe_packets", check_health)
                            EXCEPT !.identity = id]
              /\ UNCHANGED << subscription_queue, sinks, nsinks >>
       ELSE IF ~HasIdentity(id)
         THEN /\ rpc' = [Internal("subscribe_packets", "internal error fetching public key")
                            EXCEPT !.identity = id]
              /\ UNCHANGED << subscription_queue, sinks, nsinks >>
       ELSE IF pc # "select"
         THEN /\ rpc' = [Internal("subscribe_packets", "internal error adding subscription")
                            EXCEPT !.identity = id]
              /\ UNCHANGED << subscription_queue, sinks, nsinks >>
       ELSE IF Len(subscription_queue) >= SlotQueueCapacity
         THEN /\ rpc' = [NoRpc EXCEPT !.method = "subscribe_packets",
                                      !.identity = id, !.status = "Blocked"]
              /\ UNCHANGED << subscription_queue, sinks, nsinks >>
       ELSE /\ nsinks < MaxSubscribes
            /\ nsinks < MaxSinks
            /\ nsinks' = nsinks + 1
            /\ sinks' = [sinks EXCEPT ![nsinks + 1] = NewChannel]
            /\ subscription_queue' =
                  Append(subscription_queue, [pubkey |-> id, sender |-> nsinks + 1])
            /\ rpc' = [NoRpc EXCEPT !.method = "subscribe_packets",
                                    !.identity = id, !.status = "Ok"]
    /\ UNCHANGED << ingest, health_state, highest_slot, exit, config, packet_subscriptions,
                    senders, last_observed_slot, relayer_metrics, seq, pc, budget,
                    pass >>

\* port - 6 on u16: an overflow-checked build panics on underflow (-1), an
\* unchecked build wraps
AdvertisedPorts(port) ==
    IF port >= PORT_OFFSET THEN { port - PORT_OFFSET }
    ELSE { -1, (port - PORT_OFFSET) % U16 }

get_tpu_configs_response(tpu, fwd) ==
    IF tpu = -1 \/ fwd = -1
      THEN [NoRpc EXCEPT !.method = "get_tpu_configs", !.status = "Panic"]
      ELSE [NoRpc EXCEPT !.method = "get_tpu_configs", !.status = "Ok",
                         !.tpu = tpu, !.tpu_forward = fwd]

GetTpuConfigs ==
    /\ seq < MaxCalls
    /\ seq' = seq + 1
    /\ \E tpu \in AdvertisedPorts(tpu_quic_ports[(seq % Len(tpu_quic_ports)) + 1]),
          fwd \in AdvertisedPorts(tpu_fwd_quic_ports[(seq % Len(tpu_fwd_quic_ports)) + 1]) :
          rpc' = get_tpu_configs_response(tpu, fwd)
    /\ UNCHANGED << ingest, health_state, highest_slot, exit, config, packet_subscriptions,
                    senders, last_observed_slot, relayer_metrics,
                    subscription_queue, sinks, nsinks, pc, budget,
                    pass >>

(***************************************************************************)
(* The ingest channels of Tpu::new: the QUIC servers of the direct pool    *)
(* send into tpu, those of the forwards pool into tpu_forwards, the fetch  *)
(* stage moves the items of tpu_forwards into tpu, and the sigverify stage *)
(* receives from tpu.  Both channels are crossbeam bounded channels: a     *)
(* send goes through only while the channel holds less than its capacity.  *)
(***************************************************************************)
IngestStep ==
    /\ rpc' = NoRpc
    /\ UNCHANGED << health_state, highest_slot, exit, config, packet_subscriptions,
                    senders, last_observed_slot, relayer_metrics,
                    subscription_queue, sinks, nsinks, seq, pc, pass, budget >>

\* a QUIC server of the direct pool sends a packet batch (tpu_sender)
QuicTpuSend ==
    /\ ingest.tpu < TpuQueueCapacity
    /\ ingest' = [ingest EXCEPT !.tpu = @ + 1]
    /\ IngestStep

\* a QUIC server of the forwards pool sends a packet batch (tpu_forwards_sender)
QuicTpuForwardsSend ==
    /\ ingest.tpu_forwards < TpuQueueCapacity
    /\ ingest' = [ingest EXCEPT !.tpu_forwards = @ + 1]
    /\ IngestStep

\* FetchStage::new(tpu_forwards_receiver, tpu_sender, exit): an item of
\* tpu_forwards is re-injected into tpu
FetchStageForward ==
    /\ ingest.tpu_forwards > 0
    /\ ingest.tpu < TpuQueueCapacity
    /\ ingest' = [tpu |-> ingest.tpu + 1, tpu_forwards |-> ingest.tpu_forwards - 1]
    /\ IngestStep

\* SigVerifyStage::new(tpu_receiver, ...): the verifier takes an item
SigVerifyRecv ==
    /\ ingest.tpu > 0
    /\ ingest' = [ingest EXCEPT !.tpu = @ - 1]
    /\ IngestStep

(***************************************************************************)
(* The arms of the event loop's select.                                    *)
(***************************************************************************)
\* the packets of a batch of the given kinds; batch is the number of the
\* incoming batch in the order the event loop dequeues them, id is the
\* position in the incoming batch
MakeBatch(kinds) ==
    [i \in 1..Len(kinds) |-> [batch |-> budget.batches + 1, id |-> i, kind |-> kinds[i]]]

\* the pass of forward_packets over batch in the current state
Pass(batch) ==
    forward_packets(batch, senders, sinks, relayer_metrics, validator_packet_batch_size)

\* forward_packets works on the senders vector of the event loop and takes
\* no lock
ForwardLocks == {}

\* handle_heartbeat calls try_send inside the iteration over
\* subscriptions.read(), and is itself called inside the match on
\* *health_state.read(), whose guard lives to the end of the match: both
\* read locks are held while a heartbeat is try_sent
HeartbeatLocks == {"packet_subscriptions", "health_state"}

\* A batch arm that takes the failed forwards out of the forwarding set as
\* well as out of the registry: the variant the stale-entry property is
\* checked against.
BatchArmOfPurgesSenders(batch) ==
    LET st == Pass(batch)
        reg == drop_connections(Range(st.failed), packet_subscriptions)
        kept(entry) == entry[1] \notin Range(st.failed)
    IN  /\ sinks' = st.sinks
        /\ relayer_metrics' = st.metrics
        /\ packet_subscriptions' = reg
        /\ pass' = [batch |-> batch, senders |-> senders, tries |-> st.tries,
                     failed |-> st.failed, held |-> ForwardLocks]
        /\ IF last_observed_slot # highest_slot
             THEN /\ last_observed_slot' = highest_slot
                  /\ senders' \in RecomputedSenders(highest_slot, reg)
             ELSE /\ UNCHANGED last_observed_slot
                  /\ senders' = SelectSeq(senders, kept)
        /\ pc' = IF exit THEN "done" ELSE "select"

\* recv(delay_packet_receiver) of the given batch: forward_packets, then
\* drop_connections of the failed forwards
BatchArmOf(batch) ==
    LET st == Pass(batch)
        reg == drop_connections(Range(st.failed), packet_subscriptions)
    IN  /\ sinks' = st.sinks
        /\ relayer_metrics' = st.metrics
        /\ packet_subscriptions' = reg
        /\ pass' = [batch |-> batch, senders |-> senders, tries |-> st.tries,
                     failed |-> st.failed, held |-> ForwardLocks]
        /\ LoopTail(reg)

BatchArm ==
    /\ pc = "select"
    /\ budget.batches < MaxBatches
    /\ budget' = [budget EXCEPT !.batches = @ + 1]
    /\ \E kinds \in InputBatches : BatchArmOf(MakeBatch(kinds))
    /\ rpc' = NoRpc
    /\ UNCHANGED << ingest, health_state, highest_slot, exit, config, subscription_queue,
                    nsinks, seq >>

\* recv(subscription_receiver): handle_subscription
SubscriptionArm ==
    /\ pc = "select"
    /\ subscription_queue # <<>>
    /\ LET reg == handle_subscription(Head(subscription_queue), packet_subscriptions)
       IN  /\ packet_subscriptions' = reg
           /\ LoopTail(reg)
    /\ subscription_queue' = Tail(subscription_queue)
    /\ rpc' = NoRpc
    /\ UNCHANGED << ingest, health_state, highest_slot, exit, config, relayer_metrics,
                    sinks, nsinks, seq, budget,
                    pass >>

\* recv(heartbeat_tick): heartbeat when healthy, drop every connection
\* when unhealthy
HeartbeatArm ==
    /\ pc = "select"
    /\ budget.heartbeats < MaxHeartbeatTicks
    /\ budget' = [budget EXCEPT !.heartbeats = @ + 1]
    /\ IF health_state = "Healthy"
         THEN LET reg == drop_connections(HeartbeatFailed, packet_subscriptions)
              IN  /\ sinks' = HeartbeatSinks(relayer_metrics.num_heartbeats)
                  /\ relayer_metrics' = HeartbeatMetrics(relayer_metrics)
                  /\ packet_subscriptions' = reg
                  /\ pass' = [NoPass EXCEPT !.held =
                                 IF Connected # {} THEN HeartbeatLocks ELSE {}]
                  /\ LoopTail(reg)
         ELSE LET reg == drop_connections(UnhealthyKeys, packet_subscriptions)
              IN  /\ UNCHANGED << sinks, relayer_metrics >>
                  /\ packet_subscriptions' = reg
                  /\ pass' = NoPass
                  /\ LoopTail(reg)
    /\ rpc' = NoRpc
    /\ UNCHANGED << ingest, health_state, highest_slot, exit, config, subscription_queue,
                    nsinks, seq >>

\* recv(metrics_tick): report, then start from fresh metrics
MetricsArm ==
    /\ pc = "select"
    /\ relayer_metrics' = RelayerMetricsNew
    /\ LoopTail(packet_subscriptions)
    /\ rpc' = NoRpc
    /\ UNCHANGED << ingest, health_state, highest_slot, exit, config, packet_subscriptions,
                    subscription_queue, sinks, nsinks, seq, budget,
                    pass >>

\* RelayerImpl::join: the join of the event loop thread returns once
\* run_event_loop has returned
Join ==
    /\ pc = "done"
    /\ pc' = "joined"
    /\ rpc' = NoRpc
    /\ UNCHANGED << ingest, health_state, highest_slot, exit, config,
                    packet_subscriptions, senders, last_observed_slot,
                    relayer_metrics, subscription_queue, sinks, nsinks, seq,
                    budget, pass >>

(***************************************************************************)
(* The relayer: every action.                                              *)
(***************************************************************************)
Next ==
    \/ SetHealth
    \/ AdvanceSlot
    \/ SetExit
    \/ \E s \in SinkIds : ClientRecv(s)
    \/ \E s \in SinkIds : ClientDisconnect(s)
    \/ \E id \in Pubkeys \cup {NoKey} : SubscribePackets(id)
    \/ GetTpuConfigs
    \/ QuicTpuSend
    \/ QuicTpuForwardsSend
    \/ FetchStageForward
    \/ SigVerifyRecv
    \/ BatchArm
    \/ SubscriptionArm
    \/ HeartbeatArm
    \/ MetricsArm
    \/ Join

Spec == Init /\ [][Next]_vars

(***************************************************************************)
(* Sub-systems of Spec.  Each one keeps a part of the actions of Next, so  *)
(* each of its behaviours is a behaviour of Spec.                          *)
(***************************************************************************)
\* Subscriptions and batch fan-out: the registry, the forwarding set and
\* the batch arm, with slots advancing and clients going away.
InitFanout ==
    /\ health_state = "Healthy"
    /\ forward_all \in BOOLEAN
    /\ validator_packet_batch_size \in 1..MaxBatchSize
    /\ ofac_addresses \in {{}, {"blocked"}}
    /\ InitState

NextFanout ==
    \/ AdvanceSlot
    \/ \E s \in SinkIds : ClientRecv(s)
    \/ \E s \in SinkIds : ClientDisconnect(s)
    \/ \E id \in Pubkeys : SubscribePackets(id)
    \/ BatchArm
    \/ SubscriptionArm

SpecFanout == InitFanout /\ [][NextFanout]_vars

\* Heartbeats and health: the heartbeat and metrics ticks, with the health
\* manager, slots advancing and clients receiving and going away.
InitHeartbeat ==
    /\ health_state \in {"Healthy", "Unhealthy"}
    /\ forward_all \in BOOLEAN
    /\ validator_packet_batch_size = 1
    /\ ofac_addresses = {}
    /\ InitState

NextHeartbeat ==
    \/ SetHealth
    \/ AdvanceSlot
    \/ \E s \in SinkIds : ClientRecv(s)
    \/ \E s \in SinkIds : ClientDisconnect(s)
    \/ \E id \in Pubkeys : SubscribePackets(id)
    \/ SubscriptionArm
    \/ HeartbeatArm
    \/ MetricsArm

SpecHeartbeat == InitHeartbeat /\ [][NextHeartbeat]_vars

\* The RPC service: both methods, with the health manager, the exit flag
\* and the event loop taking subscriptions off the channel.
InitRpc ==
    /\ health_state \in {"Healthy", "Unhealthy"}
    /\ forward_all = TRUE
    /\ validator_packet_batch_size = 1
    /\ ofac_addresses = {}
    /\ InitState

NextRpc ==
    \/ SetHealth
    \/ SetExit
    \/ \E id \in Pubkeys \cup {NoKey} : SubscribePackets(id)
    \/ GetTpuConfigs
    \/ SubscriptionArm

SpecRpc == InitRpc /\ [][NextRpc]_vars

\* One fan-out pass from every state the fan-out can start in: the registry
\* holds any set of identities, the forwarding set is the one recomputed from
\* it at the current slot, every subscriber channel is at any fill level,
\* open or closed, and the metrics are fresh.  Such a state is reached by
\* subscriptions, a slot change, heartbeats and clients going away,
\* followed by a metrics tick.
\* The identities subscribe in the order X, Y, Z, so the k-th identity of
\* the registry owns the k-th channel.
SubscribeOrder == << "X", "Y", "Z" >>

Registries ==
    { [pk \in Pubkeys |->
         IF pk \in keys
           THEN Cardinality({ i \in 1..Len(SubscribeOrder) :
                                /\ SubscribeOrder[i] \in keys
                                /\ \E j \in i..Len(SubscribeOrder) :
                                      SubscribeOrder[j] = pk })
           ELSE NoSink] : keys \in SUBSET Pubkeys }

ChannelStates ==
    [qlen : 0..SubscriberQueueCapacity, rx : BOOLEAN, last_heartbeat : {-1},
     last_packet : {<< 0, 0 >>}]

InitForward ==
    /\ health_state = "Healthy"
    /\ highest_slot \in 1..MaxSlot
    /\ last_observed_slot = highest_slot
    /\ exit = FALSE
    /\ forward_all \in BOOLEAN
    /\ validator_packet_batch_size \in 1..MaxBatchSize
    /\ ofac_addresses \in {{}, {"blocked"}}
    /\ packet_subscriptions \in Registries
    /\ nsinks = Cardinality(Connected)
    /\ sinks \in { f \in [SinkIds -> ChannelStates] :
                     \A s \in SinkIds : s > nsinks => f[s] = NewChannel }
    /\ senders \in RecomputedSenders(highest_slot, packet_subscriptions)
    /\ relayer_metrics = RelayerMetricsNew
    /\ subscription_queue = <<>>
    /\ seq = 0
    /\ rpc = NoRpc
    /\ pc = "select"
    /\ pass = NoPass
    /\ ingest = NoIngest
    /\ budget = [batches |-> 0, heartbeats |-> 0]

NextForward == budget.batches = 0 /\ BatchArm

SpecForward == InitForward /\ [][NextForward]_vars

(***************************************************************************)
(* Properties.  A step of the event loop is recognised by what it changes: *)
(* the batch arm and the heartbeat arm count themselves in budget, the     *)
(* subscription arm takes the head of the subscription channel, and an RPC *)
(* call leaves its response in rpc.                                        *)
(***************************************************************************)
BatchStep == budget'.batches = budget.batches + 1

HeartbeatStep == budget'.heartbeats = budget.heartbeats + 1

SubscriptionStep == Len(subscription_queue') = Len(subscription_queue) - 1

RpcStep == rpc'.method # "none"

\* C1: the count values of the Heartbeat messages enqueued to one
\* subscriber's sink are strictly increasing, whatever arms run in between:
\* a heartbeat tick that enqueues a Heartbeat to a sink enqueues a count
\* greater than the count of the last Heartbeat enqueued to that sink.
C1_HeartbeatCountStrictlyIncreasing ==
    [][ HeartbeatStep =>
          \A s \in SinkIds :
              sinks'[s].qlen = sinks[s].qlen + 1
                  => sinks'[s].last_heartbeat > sinks[s].last_heartbeat ]_vars

\* C2: when the subscription arm handles a subscription of an identity that
\* is in the registry with sink A, the registry afterwards maps the identity
\* to the new sink B and no sender handle of A is left (A's client observes
\* end-of-stream); and a batch processed while the registry maps an
\* identity to a sink is not sent to another sink of that identity.
C2_DuplicateSubscribeReplaces ==
    [][ /\ SubscriptionStep =>
              \A a \in SinkIds, b \in SinkIds :
                  ( /\ b = Head(subscription_queue).sender
                    /\ packet_subscriptions[Head(subscription_queue).pubkey] = a )
                      => /\ packet_subscriptions'[Head(subscription_queue).pubkey] = b
                         /\ ~HasSenderHandle(a)'
        /\ BatchStep =>
              \A i \in DOMAIN pass'.tries :
                  packet_subscriptions[pass'.tries[i].pubkey] # NoSink
                      => pass'.tries[i].sink = packet_subscriptions[pass'.tries[i].pubkey]
      ]_vars

\* C3: a subscriber leaves the registry only because a try_send found its
\* own sink closed, because a heartbeat tick ran while the relayer was not
\* Healthy, or because a subscription of the same identity replaced it.
C3_RemovedOnlyForThreeReasons ==
    [][ \A pk \in Pubkeys, s \in SinkIds :
          (packet_subscriptions[pk] = s /\ packet_subscriptions'[pk] # s)
              => \/ (BatchStep \/ HeartbeatStep) /\ ~sinks[s].rx
                 \/ HeartbeatStep /\ health_state # "Healthy"
                 \/ SubscriptionStep /\ Head(subscription_queue).pubkey = pk ]_vars

\* C4: between the iterations of the event loop every (identity, sink)
\* entry of the forwarding set is an entry of the registry.
C4_SendersSubsetOfRegistry ==
    \A i \in DOMAIN senders : packet_subscriptions[senders[i][1]] = senders[i][2]

\* C5: when a heartbeat tick has run while the relayer is not Healthy, no
\* sender handle is left of any sink that was registered, and a
\* subscribe_packets call made while not Healthy returns Internal.
C5_UnhealthyClosesEverySink ==
    [][ /\ (HeartbeatStep /\ health_state # "Healthy") =>
              \A s \in SinkIds : HandleInRegistry(s) => ~HasSenderHandle(s)'
        /\ (rpc'.method = "subscribe_packets" /\ health_state # "Healthy") =>
              rpc'.status = "Internal" ]_vars

\* C6: every RPC call made while the relayer is not Healthy, get_tpu_configs
\* as well as subscribe_packets, returns Internal("relayer is unhealthy").
C6_EveryRpcChecksHealth ==
    [][ (RpcStep /\ health_state # "Healthy") =>
          /\ rpc'.status = "Internal"
          /\ rpc'.message = "relayer is unhealthy" ]_vars

\* the surviving packets and the sub-batches of the batch of this step
Surviving == Projection(pass'.batch)

SubBatches == Chunks(Surviving, validator_packet_batch_size)

\* the indices of the try_send calls of this step made on sink s
TriesOn(s) == { i \in DOMAIN pass'.tries : pass'.tries[i].sink = s }

\* the messages sink s accepted in this step, in the order of the calls
Accepted(s) ==
    LET ok(t) == t.sink = s /\ t.outcome = "Ok"
        accepted == SelectSeq(pass'.tries, ok)
    IN  [i \in DOMAIN accepted |-> accepted[i].msg]

IsLeaderInWindow(pk, slot) ==
    \E s \in slot..(SlotLeadersEnd(slot) - 1) : schedule(s) = pk

\* C7: in leader-schedule mode a connected subscriber whose sink has room
\* receives the batch exactly when its identity is the leader of some slot
\* of [slot, slot + L*K), slot being the slot the forwarding set was last
\* computed for.
C7_LeaderWindowSelection ==
    [][ (BatchStep /\ ~forward_all /\ Len(Surviving) > 0) =>
          \A pk \in Pubkeys :
              ( /\ packet_subscriptions[pk] # NoSink
                /\ TrySendOutcome(sinks[packet_subscriptions[pk]]) = "Ok" )
                  => ( Len(Accepted(packet_subscriptions[pk])) > 0
                         <=> IsLeaderInWindow(pk, last_observed_slot) ) ]_vars

\* C8: in forward_all mode a batch with a surviving packet is try_sent to
\* every subscriber that is in the registry when the batch is processed.
C8_ForwardAllReachesRegistry ==
    [][ (BatchStep /\ forward_all /\ Len(Surviving) > 0) =>
          \A pk \in Pubkeys :
              packet_subscriptions[pk] # NoSink
                  => TriesOn(packet_subscriptions[pk]) # {} ]_vars

\* C9: a subscriber of the forwarding set whose sink has room for the
\* sub-batches of a batch with n surviving packets receives the ceil(n/s)
\* sub-batches, each once and in chunk order, and its forwarded counter
\* grows by n.
C9_EachSubBatchExactlyOnce ==
    [][ BatchStep =>
          \A i \in DOMAIN senders :
              LET n == Len(Surviving)
                  size == validator_packet_batch_size
              IN  ( /\ sinks[senders[i][2]].rx
                    /\ sinks[senders[i][2]].qlen + Len(SubBatches)
                           <= SubscriberQueueCapacity )
                      => /\ Len(Accepted(senders[i][2])) = (n + size - 1) \div size
                         /\ Accepted(senders[i][2])
                              = [k \in DOMAIN SubBatches |-> BatchMsg(SubBatches[k])]
                         /\ relayer_metrics'.packet_stats_per_validator[senders[i][1]]
                                .num_packets_forwarded
                              = relayer_metrics.packet_stats_per_validator[senders[i][1]]
                                    .num_packets_forwarded + n ]_vars

\* the packets of the sub-batches of this step that sink s refused as Full
RECURSIVE DroppedIn(_, _)
DroppedIn(tries, s) ==
    IF Len(tries) = 0 THEN 0
    ELSE (IF Head(tries).sink = s /\ Head(tries).outcome = "Full"
            THEN Len(Head(tries).msg.packets) ELSE 0)
         + DroppedIn(Tail(tries), s)

\* entry i of the forwarding set has its sink full when the pass starts
FullEntry(i) == TrySendOutcome(sinks[senders[i][2]]) = "Full"

\* the identity pk is tried with the message msg in this step
TriedWith(pk, msg) ==
    \E k \in DOMAIN pass'.tries :
        pass'.tries[k].pubkey = pk /\ pass'.tries[k].msg = msg

\* what a full sink incurs in a pass, apart from the other subscribers
\* being served: Full outcomes only, the dropped counter grown by the
\* sub-batches tried on it, not marked for drop, still in the registry
FullIncursOnlyDrops(i) ==
    LET pk == senders[i][1]
        s == senders[i][2]
    IN  /\ \A k \in TriesOn(s) : pass'.tries[k].outcome = "Full"
        /\ relayer_metrics'.packet_stats_per_validator[pk].num_packets_dropped
             = relayer_metrics.packet_stats_per_validator[pk].num_packets_dropped
                 + DroppedIn(pass'.tries, s)
        /\ pk \notin Range(pass'.failed)
        /\ packet_subscriptions'[pk] = packet_subscriptions[pk]

\* C10 as stated: a subscriber whose sink is full incurs only Full
\* outcomes, each adding the sub-batch size to its dropped counter, is not
\* marked for drop and stays in the registry, and every other subscriber of
\* the forwarding set is tried with each sub-batch that was tried on it.
C10_FullNeverStopsOthers ==
    [][ BatchStep =>
          \A i \in DOMAIN senders :
              FullEntry(i) =>
                  /\ FullIncursOnlyDrops(i)
                  /\ \A k \in TriesOn(senders[i][2]), j \in DOMAIN senders :
                        senders[j][1] # senders[i][1]
                            => TriedWith(senders[j][1], pass'.tries[k].msg) ]_vars

\* C10 amended: as above, but another subscriber of the forwarding set is
\* tried with a sub-batch that was tried on the full sink exactly when it
\* has an entry in the set that no entry with a closed sink precedes.
C10_FullStopsNobodyButClosedDoes ==
    [][ BatchStep =>
          \A i \in DOMAIN senders :
              FullEntry(i) =>
                  /\ FullIncursOnlyDrops(i)
                  /\ \A k \in TriesOn(senders[i][2]), pk \in Pubkeys :
                        (pk # senders[i][1] /\ \E j \in DOMAIN senders : senders[j][1] = pk)
                            => ( TriedWith(pk, pass'.tries[k].msg)
                                   <=> \E j \in DOMAIN senders :
                                          /\ senders[j][1] = pk
                                          /\ \A m \in 1..(j - 1) :
                                                sinks[senders[m][2]].rx ) ]_vars

\* a pass in which a sink refused a sub-batch as Full, accepted none, and
\* a subscriber placed after it accepted that same sub-batch, the full
\* subscriber being in the registry afterwards
C10_Witness ==
    \E i, j \in DOMAIN pass.tries :
        /\ i < j
        /\ pass.tries[i].outcome = "Full"
        /\ \A k \in DOMAIN pass.tries :
              pass.tries[k].sink = pass.tries[i].sink => pass.tries[k].outcome = "Full"
        /\ pass.tries[j].outcome = "Ok"
        /\ pass.tries[j].pubkey # pass.tries[i].pubkey
        /\ pass.tries[j].msg = pass.tries[i].msg
        /\ packet_subscriptions[pass.tries[i].pubkey] = pass.tries[i].sink

\* the packets of the messages try_sent in this step
PacketsTried ==
    UNION { Range(pass'.tries[i].msg.packets) : i \in DOMAIN pass'.tries }

\* the denylist is in use and packet p touches a denylisted account
Denylisted(p) == ofac_addresses # {} /\ p.kind = "ofac"

\* C11 as stated: no message try_sent to a subscriber holds a packet whose
\* discard flag is set nor, with a non-empty denylist, a packet that touches
\* a denylisted account; every other packet of the batch is in a message
\* try_sent to the forwarding set.
C11_OnlyDiscardAndDenylistDropped ==
    [][ BatchStep =>
          /\ \A p \in PacketsTried : p.kind # "discard" /\ ~Denylisted(p)
          /\ senders # <<>> =>
                \A i \in DOMAIN pass'.batch :
                    (pass'.batch[i].kind # "discard" /\ ~Denylisted(pass'.batch[i]))
                        => pass'.batch[i] \in PacketsTried ]_vars

\* C11 amended: as above, but with a non-empty denylist a packet that does
\* not deserialize as a versioned transaction is dropped as well; every
\* packet that is not dropped is in a message try_sent to the forwarding set.
C11_UndecodableDroppedToo ==
    [][ BatchStep =>
          LET dropped(p) ==
                  \/ p.kind = "discard"
                  \/ Denylisted(p)
                  \/ ofac_addresses # {} /\ p.kind = "bad"
          IN  /\ \A p \in PacketsTried : ~dropped(p)
              /\ senders # <<>> =>
                    \A i \in DOMAIN pass'.batch :
                        ~dropped(pass'.batch[i]) <=> pass'.batch[i] \in PacketsTried
      ]_vars

\* a pass over a batch holding a denylisted and an undecodable packet, with
\* the denylist in use, in which a subscriber accepted a sub-batch
C11_Witness ==
    /\ ofac_addresses # {}
    /\ \E i, j \in DOMAIN pass.batch :
          pass.batch[i].kind = "ofac" /\ pass.batch[j].kind = "bad"
    /\ \E k \in DOMAIN pass.tries : pass.tries[k].outcome = "Ok"

\* Successive incoming batches fanned out to subscribers that start with
\* empty, open channels: any registry with the forwarding set recomputed
\* from it at the current slot.
InitOrder ==
    /\ health_state = "Healthy"
    /\ highest_slot \in 1..MaxSlot
    /\ last_observed_slot = highest_slot
    /\ exit = FALSE
    /\ forward_all \in BOOLEAN
    /\ validator_packet_batch_size \in 1..MaxBatchSize
    /\ ofac_addresses = {"blocked"}
    /\ packet_subscriptions \in Registries
    /\ nsinks = Cardinality(Connected)
    /\ sinks = [s \in SinkIds |-> NewChannel]
    /\ senders \in RecomputedSenders(highest_slot, packet_subscriptions)
    /\ relayer_metrics = RelayerMetricsNew
    /\ subscription_queue = <<>>
    /\ seq = 0
    /\ rpc = NoRpc
    /\ pc = "select"
    /\ pass = NoPass
    /\ ingest = NoIngest
    /\ budget = [batches |-> 0, heartbeats |-> 0]

NextOrder == BatchArm

SpecOrder == InitOrder /\ [][NextOrder]_vars

\* the place of packet p in the stream of incoming packets
Position(p) == << p.batch, p.id >>

\* place a comes before place b
Precedes(a, b) == a[1] < b[1] \/ (a[1] = b[1] /\ a[2] < b[2])

\* C12: the Batch messages a sink accepts come in the order in which the
\* incoming batches were dequeued and, within one incoming batch, in chunk
\* order, and the packets of a sub-batch keep their order of the incoming
\* batch: each message accepted in a batch step starts after the last
\* packet of the message accepted before it (or repeats that message), the
\* first one after the last packet the sink accepted in earlier steps, and
\* the packets of a message are in increasing position.
C12_BatchMessagesInOrder ==
    [][ BatchStep =>
          \A s \in SinkIds :
              LET acc == Accepted(s)
                  last(k) == acc[k].packets[Len(acc[k].packets)]
              IN  \A k \in DOMAIN acc :
                      /\ \A a, b \in DOMAIN acc[k].packets :
                            a < b => Precedes(Position(acc[k].packets[a]),
                                              Position(acc[k].packets[b]))
                      /\ acc[k].packets[1].batch = budget'.batches
                      /\ IF k = 1
                           THEN Precedes(sinks[s].last_packet,
                                         Position(acc[k].packets[1]))
                           ELSE \/ acc[k] = acc[k - 1]
                                \/ Precedes(Position(last(k - 1)),
                                            Position(acc[k].packets[1])) ]_vars

\* a sink that holds a sub-batch of the first incoming batch and, behind
\* it, a sub-batch accepted in the pass over the second incoming batch
C12_Witness ==
    \E s \in SinkIds :
        /\ sinks[s].qlen = 2
        /\ sinks[s].last_packet[1] = 2
        /\ Cardinality({ k \in DOMAIN pass.tries :
                            pass.tries[k].sink = s /\ pass.tries[k].outcome = "Ok" }) = 1

\* C13: a subscribe_packets call made while the subscription channel holds
\* SLOT_QUEUE_CAPACITY items does not wait: it returns an Internal status.
C13_SubscribeFailsOnFullChannel ==
    [][ ( /\ rpc'.method = "subscribe_packets"
          /\ Len(subscription_queue) >= SlotQueueCapacity )
            => rpc'.status = "Internal" ]_vars

\* The bounded channels: the ingest channels with their producers and
\* consumers, the subscription channel, and the channel of a subscriber
\* that is sent heartbeats and does not take them.
InitChannels ==
    /\ health_state = "Healthy"
    /\ forward_all = TRUE
    /\ validator_packet_batch_size = 1
    /\ ofac_addresses = {}
    /\ InitState

NextChannels ==
    \/ QuicTpuSend
    \/ QuicTpuForwardsSend
    \/ FetchStageForward
    \/ SigVerifyRecv
    \/ \E id \in Pubkeys : SubscribePackets(id)
    \/ SubscriptionArm
    \/ HeartbeatArm

SpecChannels == InitChannels /\ [][NextChannels]_vars

\* no channel holds more items than its capacity
WithinCapacity ==
    /\ ingest.tpu <= TpuQueueCapacity
    /\ ingest.tpu_forwards <= TpuQueueCapacity
    /\ Len(subscription_queue) <= SlotQueueCapacity
    /\ \A s \in SinkIds : sinks[s].qlen <= SubscriberQueueCapacity

InitExit ==
    /\ health_state = "Healthy"
    /\ forward_all = TRUE
    /\ validator_packet_batch_size = 1
    /\ ofac_addresses = {}
    /\ InitState

NextExit ==
    \/ SetExit
    \/ \E id \in Pubkeys : SubscribePackets(id)
    \/ SubscriptionArm
    \/ HeartbeatArm
    \/ MetricsArm
    \/ Join

SpecExit ==
    /\ InitExit
    /\ [][NextExit]_vars
    /\ WF_vars(HeartbeatArm \/ MetricsArm)
    /\ WF_vars(Join)

\* C15: once the exit flag is set the event loop returns and the join of
\* its thread returns, and once the loop has observed the flag no event
\* is processed: the registry, the forwarding set, the metrics and the
\* subscription channel stay as they are.
C15_ExitEndsTheLoop ==
    /\ exit ~> pc = "joined"
    /\ [][ pc # "select" =>
             UNCHANGED << packet_subscriptions, senders, last_observed_slot,
                          relayer_metrics, subscription_queue, budget >> ]_vars

\* the thread has been joined after processing a subscription and a
\* heartbeat tick, with a subscription left in the channel
C15_Witness ==
    /\ exit
    /\ pc = "joined"
    /\ Connected # {}
    /\ budget.heartbeats > 0
    /\ subscription_queue # <<>>

\* the port configured at the round-robin index of call number n (from 0)
ConfiguredPort(ports, n) == ports[(n % Len(ports)) + 1]

C17_NoIdentityNoSubscription ==
    [][ (rpc'.method = "subscribe_packets" /\ rpc'.identity = NoKey) =>
          /\ rpc'.status = "Internal"
          /\ UNCHANGED << subscription_queue, packet_subscriptions, sinks, nsinks >>
      ]_vars

\* a healthy relayer with a registered subscriber has answered a request
\* without identity
C17_Witness ==
    /\ rpc.method = "subscribe_packets"
    /\ rpc.identity = NoKey
    /\ rpc.message = "internal error fetching public key"
    /\ health_state = "Healthy"
    /\ Connected # {}

\* C18: the event loop holds neither the registry lock nor the health-state
\* lock while it calls try_send on a subscriber sink, in the batch fan-out
\* pass and in the heartbeat pass.
C18_NoLockHeldAcrossTrySend ==
    [][ (BatchStep \/ HeartbeatStep) => pass'.held = {} ]_vars

\* The registry: subscriptions, duplicates among them, and the removals of
\* the heartbeat arm and of the batch arm, with clients going away, the
\* health state either way and the slot advancing; one heartbeat and one
\* batch.
InitRegistry ==
    /\ health_state \in {"Healthy", "Unhealthy"}
    /\ forward_all = TRUE
    /\ validator_packet_batch_size = 1
    /\ ofac_addresses = {}
    /\ InitState

NextRegistry ==
    \/ AdvanceSlot
    \/ \E s \in SinkIds : ClientDisconnect(s)
    \/ \E id \in Pubkeys : SubscribePackets(id)
    \/ SubscriptionArm
    \/ budget.heartbeats = 0 /\ HeartbeatArm
    \/ budget.batches = 0 /\ BatchArm

SpecRegistry == InitRegistry /\ [][NextRegistry]_vars

\* C19: the registry holds one sink per identity and as many entries as
\* identities admitted by handle_subscription and not removed since by
\* drop_connections: a subscription adds its identity with its sink, and
\* one entry exactly when the identity was not registered; the batch arm
\* and the heartbeat arm remove the identities they hand to
\* drop_connections and nothing else; no other step changes the registry.
C19_RegistryCountsAdmitted ==
    [][ /\ SubscriptionStep =>
              LET sub == Head(subscription_queue)
              IN  /\ Connected' = Connected \cup {sub.pubkey}
                  /\ packet_subscriptions'[sub.pubkey] = sub.sender
                  /\ \A pk \in Connected \ {sub.pubkey} :
                        packet_subscriptions'[pk] = packet_subscriptions[pk]
                  /\ Cardinality(Connected') =
                        Cardinality(Connected)
                            + (IF sub.pubkey \in Connected THEN 0 ELSE 1)
        /\ BatchStep =>
              /\ Connected' = Connected \ Range(pass'.failed)
              /\ \A pk \in Connected' :
                    packet_subscriptions'[pk] = packet_subscriptions[pk]
        /\ HeartbeatStep =>
              /\ Connected' =
                    IF health_state = "Healthy"
                      THEN { pk \in Connected : sinks[packet_subscriptions[pk]].rx }
                      ELSE {}
              /\ \A pk \in Connected' :
                    packet_subscriptions'[pk] = packet_subscriptions[pk]
        /\ ~(SubscriptionStep \/ BatchStep \/ HeartbeatStep) =>
              UNCHANGED packet_subscriptions ]_vars

\* two subscriptions of one identity have been processed and nothing has
\* been removed: the registry holds one entry, with the second sink
C19_Witness ==
    /\ nsinks = 2
    /\ subscription_queue = <<>>
    /\ budget = [batches |-> 0, heartbeats |-> 0]
    /\ Cardinality(Connected) = 1
    /\ \E pk \in Pubkeys : packet_subscriptions[pk] = 2

\* entry i of the forwarding set has its sink closed when the pass starts
ClosedEntry(i) == ~sinks[senders[i][2]].rx

\* the first entry of the forwarding set whose sink is closed
FirstClosed ==
    CHOOSE i \in DOMAIN senders :
        ClosedEntry(i) /\ \A m \in 1..(i - 1) : ~ClosedEntry(m)

\* a Closed outcome appends its identity to the failed-forwards list and
\* ends the subscriber loop of its sub-batch: the list holds the identities
\* of the Closed outcomes in the order of the calls, and the call after a
\* Closed outcome, if there is one, is the first entry's, with another
\* sub-batch
ClosedMarksAndBreaks ==
    LET closed(t) == t.outcome = "Closed"
        calls == SelectSeq(pass'.tries, closed)
    IN  /\ pass'.failed = [k \in DOMAIN calls |-> calls[k].pubkey]
        /\ \A k \in DOMAIN pass'.tries :
              (closed(pass'.tries[k]) /\ k < Len(pass'.tries))
                  => /\ pass'.tries[k + 1].msg # pass'.tries[k].msg
                     /\ pass'.tries[k + 1].pubkey = senders[1][1]
                     /\ pass'.tries[k + 1].sink = senders[1][2]

\* C20 as stated: a Closed outcome appends the identity to the
\* failed-forwards list and ends the subscriber loop of that sub-batch, and
\* the subscribers placed after the closed one in the forwarding set are
\* tried on the sub-batches that follow in the same incoming batch.
C20_LaterSubscribersStillTried ==
    [][ (BatchStep /\ \E i \in DOMAIN senders : ClosedEntry(i)) =>
          /\ ClosedMarksAndBreaks
          /\ \A j \in (FirstClosed + 1)..Len(senders), c \in 2..Len(SubBatches) :
                \E k \in DOMAIN pass'.tries :
                    /\ pass'.tries[k].sink = senders[j][2]
                    /\ pass'.tries[k].msg = BatchMsg(SubBatches[c]) ]_vars

\* C20 amended: as above, but the loop of every sub-batch of the incoming
\* batch breaks at the same closed sink: each sub-batch is tried on the
\* entries up to the first closed one and on no entry after it, and the
\* closed identity is appended once per sub-batch.
C20_ClosedShortensEverySubBatch ==
    [][ (BatchStep /\ \E i \in DOMAIN senders : ClosedEntry(i)) =>
          LET f == FirstClosed
          IN  /\ ClosedMarksAndBreaks
              /\ Len(pass'.tries) = Len(SubBatches) * f
              /\ \A c \in DOMAIN SubBatches, m \in 1..f :
                    LET t == pass'.tries[(c - 1) * f + m]
                    IN  /\ t.pubkey = senders[m][1]
                        /\ t.sink = senders[m][2]
                        /\ t.msg = BatchMsg(SubBatches[c])
                        /\ t.outcome = "Closed" <=> m = f
              /\ pass'.failed = [c \in DOMAIN SubBatches |-> senders[f][1]] ]_vars

\* a pass of two sub-batches over a forwarding set with a closed sink and
\* another subscriber after it: the closed identity was appended for each
\* sub-batch and the later subscriber was tried with none
C20_Witness ==
    /\ Len(pass.failed) = 2
    /\ \E i, j \in DOMAIN pass.senders :
          /\ i < j
          /\ pass.senders[i][1] = pass.failed[1]
          /\ pass.senders[j][1] # pass.senders[i][1]
          /\ \A k \in DOMAIN pass.tries : pass.tries[k].pubkey # pass.senders[j][1]
          /\ \E k \in DOMAIN pass.tries : pass.tries[k].outcome = "Ok"

\* the outcomes of the try_send calls of this step made for identity pk
OutcomesOf(pk) ==
    { pass'.tries[k].outcome : k \in { i \in DOMAIN pass'.tries : pass'.tries[i].pubkey = pk } }

\* C21: an identity whose sink returned Closed during a fan-out pass is
\* absent from the registry when the batch arm finishes; an identity whose
\* sends returned only Ok or Full has its registry entry left as it was.
C21_ClosedEvictedOthersKept ==
    [][ BatchStep =>
          \A pk \in Pubkeys :
              /\ "Closed" \in OutcomesOf(pk) => packet_subscriptions'[pk] = NoSink
              /\ (OutcomesOf(pk) # {} /\ OutcomesOf(pk) \subseteq {"Ok", "Full"})
                    => packet_subscriptions'[pk] = packet_subscriptions[pk] ]_vars

\* a pass in which one registered identity's sink accepted a sub-batch and
\* another's returned Closed: the first is in the registry, the second is
\* not
C21_Witness ==
    \E i, j \in DOMAIN pass.tries :
        /\ pass.tries[i].outcome = "Ok"
        /\ pass.tries[j].outcome = "Closed"
        /\ pass.tries[i].pubkey # pass.tries[j].pubkey
        /\ packet_subscriptions[pass.tries[i].pubkey] = pass.tries[i].sink
        /\ packet_subscriptions[pass.tries[j].pubkey] = NoSink

\* The ticks: heartbeat ticks in either health state and metrics ticks,
\* with subscriptions arriving, clients going away and the health manager
\* changing the state; no batch arrives and the slot stays, so the
\* forwarding set is empty throughout.
InitTick ==
    /\ health_state \in {"Healthy", "Unhealthy"}
    /\ forward_all = TRUE
    /\ validator_packet_batch_size = 1
    /\ ofac_addresses = {}
    /\ InitState

NextTick ==
    \/ SetHealth
    \/ \E s \in SinkIds : ClientDisconnect(s)
    \/ \E id \in Pubkeys : SubscribePackets(id)
    \/ SubscriptionArm
    \/ HeartbeatArm
    \/ MetricsArm

SpecTick == InitTick /\ [][NextTick]_vars

\* C22: a heartbeat tick in the Healthy state try_sends a Heartbeat with
\* one count, the heartbeat counter's value at the tick, to every
\* subscriber of the registry, in the forwarding set or not: a subscriber
\* whose sink has room gets it enqueued, a subscriber whose sink is closed
\* is out of the registry when the arm ends, a subscriber whose sink is
\* full is kept with its sink as it was and adds one to the full-counter;
\* and the heartbeat counter grows by one.
C22_HealthyTickHeartbeatsRegistry ==
    [][ (HeartbeatStep /\ health_state = "Healthy") =>
          LET count == relayer_metrics.num_heartbeats
              outcome(pk) == TrySendOutcome(sinks[packet_subscriptions[pk]])
          IN  /\ \A pk \in Connected :
                    LET s == packet_subscriptions[pk]
                    IN  /\ outcome(pk) = "Ok" =>
                              /\ packet_subscriptions'[pk] = s
                              /\ sinks'[s].qlen = sinks[s].qlen + 1
                              /\ sinks'[s].last_heartbeat = count
                        /\ outcome(pk) = "Closed" => packet_subscriptions'[pk] = NoSink
                        /\ outcome(pk) = "Full" =>
                              /\ packet_subscriptions'[pk] = s
                              /\ sinks'[s] = sinks[s]
              /\ relayer_metrics'.num_try_send_channel_full =
                    relayer_metrics.num_try_send_channel_full
                        + Cardinality({ pk \in Connected : outcome(pk) = "Full" })
              /\ relayer_metrics'.num_heartbeats = count + 1 ]_vars

\* after a Healthy tick: a registered subscriber whose full sink refused
\* the heartbeat, a closed sink out of the registry, and the forwarding set
\* empty
C22_Witness ==
    /\ health_state = "Healthy"
    /\ relayer_metrics.num_heartbeats > 0
    /\ relayer_metrics.num_try_send_channel_full > 0
    /\ senders = <<>>
    /\ \E pk \in Connected :
          sinks[packet_subscriptions[pk]].qlen = SubscriberQueueCapacity
    /\ \E s \in 1..nsinks : ~sinks[s].rx /\ ~HasSenderHandle(s)

\* C23: a heartbeat tick in the Unhealthy state marks every subscriber of
\* the registry for drop and removes them in the one drop_connections of
\* the arm: the registry is empty when the arm finishes, whatever the
\* state of the sinks, and no heartbeat is sent.
C23_UnhealthyTickEmptiesRegistry ==
    [][ (HeartbeatStep /\ health_state = "Unhealthy") =>
          /\ Connected' = {}
          /\ UNCHANGED << sinks, relayer_metrics >> ]_vars

\* the only subscriber there has been was registered, got a heartbeat, has
\* its sink open still, and is out of the registry after an Unhealthy tick
C23_Witness ==
    /\ health_state = "Unhealthy"
    /\ nsinks = 1
    /\ subscription_queue = <<>>
    /\ sinks[1].rx
    /\ sinks[1].last_heartbeat >= 0
    /\ Connected = {}

\* The four arms of the loop with the slot advancing and subscriptions
\* arriving, in either forwarding mode; one heartbeat tick and one batch.
InitSlots ==
    /\ health_state = "Healthy"
    /\ forward_all \in BOOLEAN
    /\ validator_packet_batch_size = 1
    /\ ofac_addresses = {}
    /\ InitState

NextSlots ==
    \/ AdvanceSlot
    \/ \E id \in Pubkeys : SubscribePackets(id)
    \/ SubscriptionArm
    \/ budget.heartbeats = 0 /\ HeartbeatArm
    \/ budget.batches = 0 /\ BatchArm
    \/ MetricsArm

SpecSlots == InitSlots /\ [][NextSlots]_vars

\* C24: the forwarding set changes only in a loop iteration whose read of
\* the highest slot differs from the last observed slot: an arm that runs
\* with the slot unchanged leaves the forwarding set as it was, and an
\* iteration that observes a new slot records it and recomputes the set,
\* once, from the registry the arm left.
C24_SendersChangeOnlyOnSlotChange ==
    [][ /\ senders' # senders =>
              /\ pc = "select"
              /\ last_observed_slot # highest_slot
              /\ last_observed_slot' = highest_slot
        /\ last_observed_slot = highest_slot => UNCHANGED senders
        /\ last_observed_slot' # last_observed_slot =>
              /\ last_observed_slot' = highest_slot
              /\ senders' \in RecomputedSenders(highest_slot, packet_subscriptions') ]_vars

\* the forwarding set was computed at slot 1, and a subscriber admitted
\* since, with the slot unchanged, is in the registry and not in the set
C24_Witness ==
    /\ last_observed_slot = 1
    /\ highest_slot = 1
    /\ senders # <<>>
    /\ forward_all
    /\ \E pk \in Connected : \A i \in DOMAIN senders : senders[i][1] # pk

\* the concatenation of a sequence of sequences
RECURSIVE Flatten(_)
Flatten(seqs) ==
    IF Len(seqs) = 0 THEN <<>> ELSE Head(seqs) \o Flatten(Tail(seqs))

\* C25: the n surviving packets of a batch are split into consecutive
\* sub-batches of validator_packet_batch_size packets, the last one holding
\* the remainder when n is not a multiple; no sub-batch is empty and their
\* concatenation is the surviving sequence; the messages tried on the
\* subscribers are these sub-batches, each of them when there is a
\* subscriber; and when n = 0 nothing is tried, no identity is reported as
\* failed and no sink changes.
C25_SubBatchesPartitionSurvivors ==
    [][ BatchStep =>
          LET n == Len(Surviving)
              size == validator_packet_batch_size
              count == (n + size - 1) \div size
          IN  /\ Len(SubBatches) = count
              /\ \A k \in 1..count :
                    /\ SubBatches[k] =
                          SubSeq(Surviving, (k - 1) * size + 1,
                                 IF k * size < n THEN k * size ELSE n)
                    /\ Len(SubBatches[k]) > 0
                    /\ k < count => Len(SubBatches[k]) = size
                    /\ k = count => Len(SubBatches[k]) = n - (count - 1) * size
              /\ Flatten(SubBatches) = Surviving
              /\ \A i \in DOMAIN pass'.tries :
                    \E k \in 1..count : pass'.tries[i].msg = BatchMsg(SubBatches[k])
              /\ senders # <<>> =>
                    \A k \in 1..count :
                        \E i \in DOMAIN pass'.tries :
                            pass'.tries[i].msg = BatchMsg(SubBatches[k])
              /\ n = 0 =>
                    /\ pass'.tries = <<>>
                    /\ pass'.failed = <<>>
                    /\ sinks' = sinks ]_vars

\* a pass of a batch with three surviving packets and sub-batch size two:
\* a sink accepted a sub-batch of two packets and then the remainder of one
C25_Witness ==
    /\ validator_packet_batch_size = 2
    /\ Len(Projection(pass.batch)) = 3
    /\ \E i, j \in DOMAIN pass.tries :
          /\ i < j
          /\ pass.tries[i].sink = pass.tries[j].sink
          /\ pass.tries[i].outcome = "Ok"
          /\ pass.tries[j].outcome = "Ok"
          /\ Len(pass.tries[i].msg.packets) = 2
          /\ Len(pass.tries[j].msg.packets) = 1

\* C26: a subscriber's sink is not closed at the moment handle_subscription
\* inserts it into the registry, whatever the interleaving of the RPC
\* handler creating the channel, the client dropping its stream and the
\* event loop dequeuing the subscription.
C26_SinkOpenAtInsert ==
    [][ SubscriptionStep => sinks[Head(subscription_queue).sender].rx ]_vars

\* Successive batches fanned out over a forwarding set computed from a
\* registry some of whose sinks are closed, the slot advancing or not in
\* between.
InitStale ==
    /\ health_state = "Healthy"
    /\ highest_slot = 0
    /\ last_observed_slot = highest_slot
    /\ exit = FALSE
    /\ forward_all \in BOOLEAN
    /\ validator_packet_batch_size \in 1..MaxBatchSize
    /\ ofac_addresses = {}
    /\ packet_subscriptions \in Registries
    /\ nsinks = Cardinality(Connected)
    /\ sinks \in { f \in [SinkIds -> ChannelStates] :
                     \A s \in SinkIds : f[s].qlen = 0 /\ (s > nsinks => f[s] = NewChannel) }
    /\ senders \in RecomputedSenders(highest_slot, packet_subscriptions)
    /\ relayer_metrics = RelayerMetricsNew
    /\ subscription_queue = <<>>
    /\ seq = 0
    /\ rpc = NoRpc
    /\ pc = "select"
    /\ pass = NoPass
    /\ ingest = NoIngest
    /\ budget = [batches |-> 0, heartbeats |-> 0]

NextStale ==
    \/ AdvanceSlot
    \/ BatchArm

SpecStale == InitStale /\ [][NextStale]_vars

\* entry i of the forwarding set is stale: its sink is closed and its
\* identity is not in the registry with that sink
StaleEntry(i) ==
    ClosedEntry(i) /\ packet_subscriptions[senders[i][1]] # senders[i][2]

\* C27: a sink found closed during fan-out stays in the forwarding set
\* after its identity is evicted: a batch arm that finds a closed sink and
\* observes no new slot evicts the identity and leaves the forwarding set
\* as it was, a closed sink does not reopen, and a later batch whose
\* first closed entry is such a stale one has each sub-batch tried on the
\* entries before it and on it, and on no entry after it.
C27_StaleClosedEntryKeepsShortening ==
    [][ /\ \A s \in SinkIds : ~sinks[s].rx => ~sinks'[s].rx
        /\ (BatchStep /\ \E i \in DOMAIN senders : ClosedEntry(i)) =>
              LET f == FirstClosed
              IN  /\ (Len(Surviving) > 0 /\ last_observed_slot = highest_slot) =>
                        /\ senders' = senders
                        /\ packet_subscriptions'[senders[f][1]] = NoSink
                  /\ StaleEntry(f) =>
                        /\ Len(pass'.tries) = Len(SubBatches) * f
                        /\ \A c \in DOMAIN SubBatches, m \in 1..f :
                              LET t == pass'.tries[(c - 1) * f + m]
                              IN  /\ t.sink = senders[m][2]
                                  /\ t.msg = BatchMsg(SubBatches[c])
                                  /\ t.outcome = "Closed" <=> m = f
                        /\ \A j \in (f + 1)..Len(senders) :
                              (\A m \in 1..f : senders[m][2] # senders[j][2])
                                  => TriesOn(senders[j][2]) = {} ]_vars

\* the second batch with the slot unchanged: a subscriber placed before
\* the closed sink has accepted a sub-batch of each batch, the closed
\* identity is out of the registry and in the forwarding set still, and a
\* subscriber placed after it, its sink open, has received nothing
C27_Witness ==
    /\ budget.batches = 2
    /\ last_observed_slot = highest_slot
    /\ senders = pass.senders
    /\ \E i, f, j \in DOMAIN senders :
          /\ i < f /\ f < j
          /\ sinks[senders[i][2]].qlen = 2
          /\ sinks[senders[i][2]].last_packet[1] = 2
          /\ Cardinality({ k \in DOMAIN pass.tries :
                              /\ pass.tries[k].sink = senders[i][2]
                              /\ pass.tries[k].outcome = "Ok" }) = 1
          /\ ~sinks[senders[f][2]].rx
          /\ senders[f][1] \in Range(pass.failed)
          /\ packet_subscriptions[senders[f][1]] = NoSink
          /\ sinks[senders[j][2]].rx
          /\ sinks[senders[j][2]].qlen = 0
          /\ packet_subscriptions[senders[j][1]] = senders[j][2]

\* A relayer that starts Healthy and turns Unhealthy, with subscriptions
\* queued before and dequeued after, clients going away, the slot
\* advancing, one heartbeat tick and one batch; two identities subscribe.
InitLate ==
    /\ health_state = "Healthy"
    /\ forward_all = TRUE
    /\ validator_packet_batch_size = 1
    /\ ofac_addresses = {}
    /\ InitState

NextLate ==
    \/ health_state = "Healthy" /\ SetHealth
    \/ AdvanceSlot
    \/ \E s \in SinkIds : ClientDisconnect(s)
    \/ \E id \in {"X", "Y"} : SubscribePackets(id)
    \/ SubscriptionArm
    \/ budget.heartbeats = 0 /\ HeartbeatArm
    \/ budget.batches = 0 /\ BatchArm

SpecLate == InitLate /\ [][NextLate]_vars

\* the subscription arm inserts the subscriber whatever the health state
InsertedWhateverHealth ==
    SubscriptionStep =>
        packet_subscriptions'[Head(subscription_queue).pubkey]
            = Head(subscription_queue).sender

\* C28 as stated: handle_subscription inserts the subscriber without
\* consulting the health state, and while the relayer is Unhealthy a
\* subscriber of the registry stays in it until the next heartbeat tick:
\* no step other than a heartbeat tick takes an identity out.
C28_LateSubscriberStaysUntilTick ==
    [][ /\ InsertedWhateverHealth
        /\ (health_state = "Unhealthy" /\ ~HeartbeatStep) =>
              Connected \subseteq Connected' ]_vars

\* C28 amended: as above, but a batch arm takes out the identities whose
\* sends returned Closed, before any heartbeat tick; no other step than
\* these and the heartbeat tick, which empties the registry, takes an
\* identity out.
C28_LateSubscriberStaysUntilTickOrClosed ==
    [][ /\ InsertedWhateverHealth
        /\ (health_state = "Unhealthy" /\ ~HeartbeatStep) =>
              /\ Connected \ Connected' =
                    IF BatchStep THEN Connected \cap Range(pass'.failed) ELSE {}
        /\ (health_state = "Unhealthy" /\ HeartbeatStep) => Connected' = {} ]_vars

\* the one subscription there has been is in the registry of an Unhealthy
\* relayer, inserted after the heartbeat tick, which sent no heartbeat
C28_Witness ==
    /\ health_state = "Unhealthy"
    /\ budget.heartbeats = 1
    /\ relayer_metrics.num_heartbeats = 0
    /\ nsinks = 1
    /\ \E pk \in Pubkeys : packet_subscriptions[pk] = 1

\* the packets of the batch of this step that are not discarded and do not
\* deserialize as a versioned transaction
Undecodable ==
    { pass'.batch[i] : i \in { k \in DOMAIN pass'.batch : pass'.batch[k].kind = "bad" } }

\* C29: with a non-empty denylist a non-discarded packet that does not
\* deserialize is out of the projection and in no message try_sent to a
\* subscriber; with an empty denylist it is in the projection and, when
\* there is a subscriber, in a message try_sent.
C29_UndecodableDroppedOnlyWithDenylist ==
    [][ BatchStep =>
          \A p \in Undecodable :
              IF ofac_addresses # {}
                THEN /\ p \notin Range(Surviving)
                     /\ p \notin PacketsTried
                ELSE /\ p \in Range(Surviving)
                     /\ senders # <<>> => p \in PacketsTried ]_vars

\* a pass with the denylist in use over a batch with an undecodable packet:
\* a subscriber accepted a sub-batch and no message tried holds the packet
C29_Witness ==
    /\ ofac_addresses # {}
    /\ \E i \in DOMAIN pass.batch : pass.batch[i].kind = "bad"
    /\ \E k \in DOMAIN pass.tries : pass.tries[k].outcome = "Ok"
    /\ \A k \in DOMAIN pass.tries :
          \A m \in DOMAIN pass.tries[k].msg.packets :
              pass.tries[k].msg.packets[m].kind # "bad"
============================================================================
